---- MODULE Spec2Model ----
(***************************************************************************)
(* Model of backend/ai_endurance_coach.py: the daily-plan rule engine      *)
(* (PhysiologyEngine, LoadManager, RecoveryEngine, AICoach).               *)
(*                                                                         *)
(* Numbers.  The program computes with Python floats.  The model computes  *)
(* the same values exactly:                                                *)
(*   - a training load mean or an ACWR is a rational [num, den] (den > 0); *)
(*     float("inf") is the value Inf;                                      *)
(*   - a readiness score is an integer number of tenths of a point;        *)
(*   - a trimming factor is a rational [num, den]; round(x * factor) is    *)
(*     Python's round-half-to-even of the exact product.                   *)
(* Optional[int] is a sequence: None is << >>, the value v is << v >>.     *)
(*                                                                         *)
(* Left out, as no rule reads them: MacrocycleContext, the identity        *)
(* fields of UserProfile, the day number and weekday, the free-text notes  *)
(* of a session and the meta block of the day entry.                       *)
(***************************************************************************)
EXTENDS Integers, Sequences, FiniteSets, TLC

VARIABLES
    pc,     \* "ready" | "returned" | "raised": where the call stands
    op,     \* the method that is called
    args,   \* its arguments
    ret     \* what it returned or raised (NoValue while pc = "ready")

vars == <<pc, op, args, ret>>

\* ------------------------------ bounds ---------------------------------- \*

\* longest load history
MaxHistory == 30
\* largest daily training load in a history, and largest acute/chronic
\* load handed to compute_acwr directly
MaxLoad == 3
\* largest availability_minutes of a day
MaxAvail == 125
\* an ACWR handed to classify_acwr directly is n/d, n <= MaxAcwrNum, d <= MaxAcwrDen
MaxAcwrNum == 40

MaxAcwrDen == 20

\* a session handed to _trim_volume directly has at most MaxSegments
\* segments, its total and each segment at most MaxMinutes minutes, and is
\* trimmed at most MaxTrims times over
MaxSegments == 2

MaxMinutes == 6

MaxTrims == 3

\* longest session handed to _intra_fueling directly, in minutes
MaxDuration == 300

\* ------------------------------ helpers --------------------------------- \*

None == << >>

Some(v) == << v >>

\* Python truthiness of an Optional[int]: None and 0 are falsy
Truthy(o) == o # None /\ o[1] # 0

\* Python's  o or default  for an Optional[int]
OrElse(o, default) == IF Truthy(o) THEN o[1] ELSE default

Max(a, b) == IF a >= b THEN a ELSE b

Min(a, b) == IF a <= b THEN a ELSE b

Range(s) == { s[i] : i \in 1..Len(s) }

RECURSIVE SumSeq(_)
SumSeq(s) == IF s = << >> THEN 0 ELSE Head(s) + SumSeq(Tail(s))

\* Python round(): n/d (d > 0) rounded to the nearest integer, ties to even
RoundHalfEven(n, d) ==
    LET q == n \div d
        r == n % d
    IN  IF 2 * r > d THEN q + 1
        ELSE IF 2 * r < d THEN q
        ELSE IF q % 2 = 0 THEN q ELSE q + 1

\* rationals [num, den] with den > 0, and float("inf")
Rat(n, d) == [inf |-> FALSE, num |-> n, den |-> d]

Inf == [inf |-> TRUE, num |-> 1, den |-> 0]

RatLess(a, b) ==
    IF a.inf THEN FALSE
    ELSE IF b.inf THEN TRUE
    ELSE a.num * b.den < b.num * a.den

RatLeq(a, b) ==
    IF b.inf THEN TRUE
    ELSE IF a.inf THEN FALSE
    ELSE a.num * b.den <= b.num * a.den

\* Python s[-k:] on a sequence
LastK(s, k) == SubSeq(s, Max(1, Len(s) - k + 1), Len(s))

\* statistics.mean of a non-empty sequence of integers
mean(s) == Rat(SumSeq(s), Len(s))

\* round(x, 2) of a finite rational x
Round2(x) == Rat(RoundHalfEven(x.num * 100, x.den), 100)

\* --------------------------- tunable constants -------------------------- \*

ACWR_THRESHOLDS ==
    [under |-> Rat(4, 5), optimal_low |-> Rat(4, 5),
     optimal_high |-> Rat(13, 10), elevated_high |-> Rat(3, 2)]

\* grams of carbohydrate per kg, in tenths
PRE_RUN_CARBS_EASY_G_PER_KG == 5

PRE_RUN_CARBS_LONG_OR_HARD_G_PER_KG == 10

INTRA_CARB_RULES ==
    << [min_minutes |-> 0, max_minutes |-> 59, carbs_g_per_hour |-> 0,
        fluids |-> "Water", electrolytes_mg_per_l |-> 300],
       [min_minutes |-> 60, max_minutes |-> 89, carbs_g_per_hour |-> 30,
        fluids |-> "Water + electrolytes", electrolytes_mg_per_l |-> 400],
       [min_minutes |-> 90, max_minutes |-> 180, carbs_g_per_hour |-> 60,
        fluids |-> "Carb mix (glucose/fructose) + electrolytes", electrolytes_mg_per_l |-> 500],
       [min_minutes |-> 181, max_minutes |-> 300, carbs_g_per_hour |-> 90,
        fluids |-> "High-carb mix + electrolytes", electrolytes_mg_per_l |-> 600] >>

\* grams of protein per kg, in hundredths
POST_RUN_PROTEIN_G_PER_KG == 27

\* grams of carbohydrate per kg, in tenths
POST_RUN_CARB_G_PER_KG == [short |-> 6, medium |-> 8, long |-> 10]

HYDRATION_ML_PER_HR_RANGE == <<500, 750>>

HYDRATION_SODIUM_MG_PER_L_RANGE == <<400, 800>>

MASTERS_AGE == 40

\* in tenths of a point
READINESS_TIER_BOUNDS == [low |-> 0, moderate |-> 500, high |-> 750]

\* in tenths
INTENSITY_FACTORS == [Z1 |-> 10, Z2 |-> 13, Z3 |-> 16, Z4 |-> 19, Z5 |-> 23]

\* clamp without its upper bound
clamp_lower_only(value, lower, upper) == Max(lower, value)

\* clamp(value, lower, upper)
clamp(value, lower, upper) == Max(lower, Min(upper, value))

NoValue == [kind |-> "none"]

Raise(error, message) == [kind |-> "raise", error |-> error, message |-> message]

IsRaise(v) == v.kind = "raise"

\* ------------------------------ LoadManager ----------------------------- \*

\* the window sizes of compute_acute_chronic
ACUTE_DAYS == 7

CHRONIC_DAYS == 28

\* compute_acute_chronic with the chronic window never cut to 28 days
compute_acute_chronic_uncut(load_history) ==
    IF load_history = << >> THEN <<Rat(0, 1), Rat(0, 1)>>
    ELSE <<mean(LastK(load_history, ACUTE_DAYS)), mean(load_history)>>

\* LoadManager.compute_acute_chronic: <<acute, chronic>>
compute_acute_chronic(load_history) ==
    IF load_history = << >> THEN <<Rat(0, 1), Rat(0, 1)>>
    ELSE
        LET acute_window == LastK(load_history, ACUTE_DAYS)
            chronic_window ==
                IF Len(load_history) >= CHRONIC_DAYS
                THEN LastK(load_history, CHRONIC_DAYS)
                ELSE load_history
        IN  <<mean(acute_window), mean(chronic_window)>>

\* compute_acwr returning 0 for a zero chronic load whatever the acute load
compute_acwr_zero_only(acute_load, chronic_load) ==
    IF chronic_load.num <= 0
    THEN Rat(0, 1)
    ELSE Rat(acute_load.num * chronic_load.den, acute_load.den * chronic_load.num)

\* LoadManager.compute_acwr
compute_acwr(acute_load, chronic_load) ==
    IF chronic_load.num <= 0
    THEN IF acute_load.num > 0 THEN Inf ELSE Rat(0, 1)
    ELSE Rat(acute_load.num * chronic_load.den, acute_load.den * chronic_load.num)

\* classify_acwr with the elevated band open at its upper end (< for <=)
classify_acwr_open(acwr) ==
    IF RatLess(acwr, ACWR_THRESHOLDS.under) THEN "underload"
    ELSE IF RatLeq(ACWR_THRESHOLDS.optimal_low, acwr)
            /\ RatLeq(acwr, ACWR_THRESHOLDS.optimal_high) THEN "optimal"
    ELSE IF RatLess(ACWR_THRESHOLDS.optimal_high, acwr)
            /\ RatLess(acwr, ACWR_THRESHOLDS.elevated_high) THEN "elevated"
    ELSE "high"

\* LoadManager.classify_acwr
classify_acwr(acwr) ==
    IF RatLess(acwr, ACWR_THRESHOLDS.under) THEN "underload"
    ELSE IF RatLeq(ACWR_THRESHOLDS.optimal_low, acwr)
            /\ RatLeq(acwr, ACWR_THRESHOLDS.optimal_high) THEN "optimal"
    ELSE IF RatLess(ACWR_THRESHOLDS.optimal_high, acwr)
            /\ RatLeq(acwr, ACWR_THRESHOLDS.elevated_high) THEN "elevated"
    ELSE "high"

\* the recommendation text load_report attaches to a zone
recommendation(zone) ==
    IF zone = "underload"
    THEN "Increase load gradually (5-10%) to avoid detraining."
    ELSE IF zone = "elevated"
    THEN "Hold or slightly reduce load; avoid stacking hard days."
    ELSE IF zone = "high"
    THEN "Prioritize recovery; cap intensity until ACWR is back in range."
    ELSE "Maintain progressive overload."

\* round(acwr, 2) of load_report.  acwr is the double quotient of two doubles;
\* where the exact quotient lies halfway between two hundredths, the double
\* lies on either side of it or on it, and the result is either neighbour
round_acwr(acwr) ==
    IF acwr.inf THEN {Inf}
    ELSE IF 2 * ((acwr.num * 100) % acwr.den) = acwr.den
    THEN { Rat((acwr.num * 100) \div acwr.den, 100),
           Rat((acwr.num * 100) \div acwr.den + 1, 100) }
    ELSE { Round2(acwr) }

\* LoadManager.load_report: the reports the call can return (one, but for
\* the rounding of acwr above)
load_report(load_history) ==
    LET ac == compute_acute_chronic(load_history)
        acwr == compute_acwr(ac[1], ac[2])
        risk == classify_acwr(acwr)
    IN  { [acute_load |-> Round2(ac[1]),
           chronic_load |-> Round2(ac[2]),
           acwr |-> reported,
           zone |-> risk,
           recommendation |-> recommendation(risk)] : reported \in round_acwr(acwr) }

\* ----------------------------- RecoveryEngine --------------------------- \*

\* RecoveryEngine.readiness_score: <<score, tier>>, the score in tenths of a
\* point; inputs.sleep_hours is in tenths of an hour, hrv_change_ms in ms
readiness_score(inputs, user, load_zone) ==
    LET s0 == 1000
        s1 == s0 - Max(0, (75 - inputs.sleep_hours) * 5)
        s2 == s1 + (inputs.sleep_quality - 7) * 30
        s3 == s2 - (inputs.soreness - 3) * 40
        s4 == s3 - (inputs.stress - 3) * 30
        s5 == s4 + (inputs.mental_energy - 5) * 25
        delta == IF Truthy(inputs.resting_hr) /\ Truthy(user.resting_hr)
                 THEN inputs.resting_hr[1] - user.resting_hr[1] ELSE 0
        s6 == IF delta > 0 THEN s5 - delta * 12 ELSE s5
        s7 == IF inputs.hrv_change_ms # None /\ inputs.hrv_change_ms[1] < 0
              THEN s6 + inputs.hrv_change_ms[1] * 6 ELSE s6
        s8 == IF load_zone \in {"elevated", "high"} THEN s7 - 80 ELSE s7
        s9 == IF user.injury_flag THEN s8 - 100 ELSE s8
        score == clamp(s9, 0, 1000)
        tier == IF score >= READINESS_TIER_BOUNDS.high THEN "high"
                ELSE IF score >= READINESS_TIER_BOUNDS.moderate THEN "moderate"
                ELSE "low"
    IN  <<score, tier>>

\* RecoveryEngine.protocol
protocol(readiness_tier, acwr_zone, user) ==
    LET base_actions == << "7-9h sleep, consistent bedtime",
                           "Protein with every meal; colorful carbs and healthy fats" >>
        base_monitoring == << "Subjective check-in (mood/soreness)", "Resting HR on waking" >>
        tiered ==
            IF readiness_tier = "low" \/ acwr_zone \in {"high"}
            THEN [actions |-> base_actions \o
                               << "Active recovery: 20-40 min easy walk/ride",
                                  "10-15 min mobility + light band work",
                                  "Early night; reduce stimulants" >>,
                  monitoring |-> Append(base_monitoring,
                                        "Delay intensity until readiness improves")]
            ELSE IF readiness_tier = "moderate" \/ acwr_zone = "elevated"
            THEN [actions |-> base_actions \o
                               << "Keep intensity at or below Z2 today",
                                  "Add 5-10 min of post-run mobility",
                                  "Extra 20-30 g carbs in evening meal" >>,
                  monitoring |-> base_monitoring]
            ELSE [actions |-> base_actions \o
                               << "Proceed with planned intensity; keep warmup thorough",
                                  "Short strides to maintain neuromuscular readiness" >>,
                  monitoring |-> base_monitoring]
        masters == IF user.age >= MASTERS_AGE
                   THEN << "Include extra calf/hip stability 2-3x/week; extend cooldown by 5 min" >>
                   ELSE << >>
        novice == IF user.training_level = "novice"
                  THEN << "Prefer soft surfaces; focus on relaxed form cues" >>
                  ELSE << >>
        injured == IF user.injury_flag
                   THEN << "Prioritize pain-free movement; skip plyometrics and downhill stress" >>
                   ELSE << >>
    IN  [actions |-> tiered.actions \o masters \o novice \o injured,
         monitoring |-> tiered.monitoring]

\* ----------------------------- NutritionEngine -------------------------- \*

\* _intra_fueling raising the carbs only beyond 90 minutes (> for >=)
_intra_fueling_after_90(duration, intensity_zone) ==
    LET matching == { i \in 1..Len(INTRA_CARB_RULES) :
                        /\ INTRA_CARB_RULES[i].min_minutes <= duration
                        /\ duration <= INTRA_CARB_RULES[i].max_minutes }
        rule == IF matching = {} THEN INTRA_CARB_RULES[1]
                ELSE INTRA_CARB_RULES[CHOOSE i \in matching : \A j \in matching : i <= j]
        carbs == IF intensity_zone \in {"Z4", "Z5"} /\ duration > 90
                 THEN Max(rule.carbs_g_per_hour, 70)
                 ELSE rule.carbs_g_per_hour
    IN  [carbs_g_per_hour |-> carbs,
         fluids |-> rule.fluids,
         electrolytes_mg_per_l |-> rule.electrolytes_mg_per_l,
         notes |-> IF carbs # 0
                   THEN "Use glucose+fructose mix for >60 g/h; sip steadily every 10-15 min."
                   ELSE "Water as thirst dictates; add electrolytes in heat."]

\* NutritionEngine._intra_fueling
_intra_fueling(duration, intensity_zone) ==
    LET matching == { i \in 1..Len(INTRA_CARB_RULES) :
                        /\ INTRA_CARB_RULES[i].min_minutes <= duration
                        /\ duration <= INTRA_CARB_RULES[i].max_minutes }
        rule == IF matching = {} THEN INTRA_CARB_RULES[1]
                ELSE INTRA_CARB_RULES[CHOOSE i \in matching : \A j \in matching : i <= j]
        carbs == IF intensity_zone \in {"Z4", "Z5"} /\ duration >= 90
                 THEN Max(rule.carbs_g_per_hour, 70)
                 ELSE rule.carbs_g_per_hour
    IN  [carbs_g_per_hour |-> carbs,
         fluids |-> rule.fluids,
         electrolytes_mg_per_l |-> rule.electrolytes_mg_per_l,
         notes |-> IF carbs # 0
                   THEN "Use glucose+fructose mix for >60 g/h; sip steadily every 10-15 min."
                   ELSE "Water as thirst dictates; add electrolytes in heat."]

\* NutritionEngine._post_fueling; weight_kg in whole kg, grams in tenths
_post_fueling(duration, weight_kg) ==
    LET carb_rate == IF duration >= 90 THEN POST_RUN_CARB_G_PER_KG.long
                     ELSE IF duration >= 46 THEN POST_RUN_CARB_G_PER_KG.medium
                     ELSE POST_RUN_CARB_G_PER_KG.short
    IN  [protein_g |-> RoundHalfEven(weight_kg * POST_RUN_PROTEIN_G_PER_KG, 10),
         carbs_g |-> weight_kg * carb_rate]

\* NutritionEngine._hydration_guidance
_hydration_guidance(duration, intensity_zone) ==
    LET needs_electrolytes == duration >= 60 \/ intensity_zone \in {"Z3", "Z4", "Z5"}
    IN  [fluids_ml_per_hour |-> HYDRATION_ML_PER_HR_RANGE,
         sodium_mg_per_l |-> IF needs_electrolytes
                             THEN [range |-> HYDRATION_SODIUM_MG_PER_L_RANGE, text |-> ""]
                             ELSE [range |-> << >>,
                                   text |-> "Lightly salted foods suffice for short easy days."]]

\* NutritionEngine.build_plan; grams in tenths
build_plan(session, user) ==
    LET duration == session.duration_minutes
        is_long_or_hard ==
            session.template \in {"Long Run", "Threshold", "VO2_Intervals", "Double_Threshold"}
        pre_carb_g_per_kg == IF is_long_or_hard THEN PRE_RUN_CARBS_LONG_OR_HARD_G_PER_KG
                             ELSE PRE_RUN_CARBS_EASY_G_PER_KG
    IN  [pre_run |-> [carbs_g |-> user.weight_kg * pre_carb_g_per_kg,
                      notes |-> IF is_long_or_hard
                                THEN "Aim for low-fiber carbs 2-3h pre-run; add 500 ml fluids."
                                ELSE "Small carb snack 30-60 min pre-run."],
         intra_run |-> _intra_fueling(duration, session.primary_zone),
         post_run |-> _post_fueling(duration, user.weight_kg),
         hydration |-> _hydration_guidance(duration, session.primary_zone)]

\* ---------------------------- PhysiologyEngine -------------------------- \*

\* the nested zone(low, high) of heart_rate_zones; low and high in percent
zone(rhr, reserve, low, high) ==
    <<RoundHalfEven(rhr * 100 + reserve * low, 100),
      RoundHalfEven(rhr * 100 + reserve * high, 100)>>

\* PhysiologyEngine.heart_rate_zones
heart_rate_zones(max_hr, resting_hr) ==
    IF ~Truthy(max_hr)
    THEN Raise("ValueError", "max_hr is required to derive zones")
    ELSE
        LET rhr == OrElse(resting_hr, 60)
            reserve == Max(max_hr[1] - rhr, 1)
        IN  [kind |-> "zones",
             Z1 |-> zone(rhr, reserve, 55, 72),
             Z2 |-> zone(rhr, reserve, 72, 82),
             Z3 |-> zone(rhr, reserve, 82, 89),
             Z4 |-> zone(rhr, reserve, 89, 95),
             Z5 |-> zone(rhr, reserve, 95, 100)]

\* ------------------------------- AICoach -------------------------------- \*

RestOrRecovery == {"Rest", "Recovery"}

VeryHard == {"VO2_Intervals", "Double_Threshold"}

\* a segment of a session
Segment(label, n, duration, target_zone, hr_zones) ==
    [label |-> label, n |-> n, duration_minutes |-> duration,
     target_zone |-> target_zone, hr_range_bpm |-> hr_zones[target_zone]]

\* _safe_zones handing user.max_hr on without the 190 default
_safe_zones_no_default(user, adaptations) ==
    [zones |-> heart_rate_zones(user.max_hr, user.resting_hr),
     adaptations |-> IF ~Truthy(user.max_hr)
                     THEN Append(adaptations, "Missing max_hr; defaulting to 190 bpm for zone calc.")
                     ELSE adaptations]

\* AICoach._safe_zones: [zones, adaptations]
_safe_zones(user, adaptations) ==
    LET ad == IF ~Truthy(user.max_hr)
              THEN Append(adaptations, "Missing max_hr; defaulting to 190 bpm for zone calc.")
              ELSE adaptations
        max_hr == OrElse(user.max_hr, 190)
    IN  [zones |-> heart_rate_zones(Some(max_hr), user.resting_hr), adaptations |-> ad]

\* _adapt_template with the Rest escalation an elif of the low-readiness swap
_adapt_template_elif_rest(template, readiness_tier, acwr_zone, user, adaptations) ==
    LET a1 == IF user.injury_flag /\ template \notin RestOrRecovery
              THEN [adjusted |-> "Recovery",
                    adaptations |-> Append(adaptations, "Injury flag set; downgrading to Recovery.")]
              ELSE [adjusted |-> template, adaptations |-> adaptations]
    IN  IF readiness_tier = "low"
        THEN LET a2 == IF template \notin RestOrRecovery
                       THEN [adjusted |-> "Recovery",
                             adaptations |-> Append(a1.adaptations,
                                 "Low readiness detected; replaced hard session with Recovery.")]
                       ELSE a1
             IN  IF template \notin RestOrRecovery THEN a2
                 ELSE IF acwr_zone \in {"high"}
                 THEN [adjusted |-> "Rest",
                       adaptations |-> Append(a2.adaptations,
                           "High ACWR + low readiness; prescribing Rest.")]
                 ELSE a2
        ELSE IF acwr_zone \in {"high"}
        THEN IF template \in VeryHard
             THEN [adjusted |-> "Threshold",
                   adaptations |-> Append(a1.adaptations,
                       "High ACWR; downgrading from very hard to Threshold.")]
             ELSE a1
        ELSE IF acwr_zone \in {"elevated"} /\ template \in VeryHard
        THEN [adjusted |-> "Threshold",
              adaptations |-> Append(a1.adaptations,
                  "Elevated ACWR; shifting to Threshold focus.")]
        ELSE a1

\* _adapt_template without its last branch (elevated ACWR)
_adapt_template_no_elevated(template, readiness_tier, acwr_zone, user, adaptations) ==
    LET a1 == IF user.injury_flag /\ template \notin RestOrRecovery
              THEN [adjusted |-> "Recovery",
                    adaptations |-> Append(adaptations, "Injury flag set; downgrading to Recovery.")]
              ELSE [adjusted |-> template, adaptations |-> adaptations]
    IN  IF readiness_tier = "low"
        THEN LET a2 == IF template \notin RestOrRecovery
                       THEN [adjusted |-> "Recovery",
                             adaptations |-> Append(a1.adaptations,
                                 "Low readiness detected; replaced hard session with Recovery.")]
                       ELSE a1
             IN  IF acwr_zone \in {"high"}
                 THEN [adjusted |-> "Rest",
                       adaptations |-> Append(a2.adaptations,
                           "High ACWR + low readiness; prescribing Rest.")]
                 ELSE a2
        ELSE IF acwr_zone \in {"high"}
        THEN IF template \in VeryHard
             THEN [adjusted |-> "Threshold",
                   adaptations |-> Append(a1.adaptations,
                       "High ACWR; downgrading from very hard to Threshold.")]
             ELSE a1
        ELSE a1

\* AICoach._adapt_template: [adjusted, adaptations]
_adapt_template(template, readiness_tier, acwr_zone, user, adaptations) ==
    LET a1 == IF user.injury_flag /\ template \notin RestOrRecovery
              THEN [adjusted |-> "Recovery",
                    adaptations |-> Append(adaptations, "Injury flag set; downgrading to Recovery.")]
              ELSE [adjusted |-> template, adaptations |-> adaptations]
    IN  IF readiness_tier = "low"
        THEN LET a2 == IF template \notin RestOrRecovery
                       THEN [adjusted |-> "Recovery",
                             adaptations |-> Append(a1.adaptations,
                                 "Low readiness detected; replaced hard session with Recovery.")]
                       ELSE a1
             IN  IF acwr_zone \in {"high"}
                 THEN [adjusted |-> "Rest",
                       adaptations |-> Append(a2.adaptations,
                           "High ACWR + low readiness; prescribing Rest.")]
                 ELSE a2
        ELSE IF acwr_zone \in {"high"}
        THEN IF template \in VeryHard
             THEN [adjusted |-> "Threshold",
                   adaptations |-> Append(a1.adaptations,
                       "High ACWR; downgrading from very hard to Threshold.")]
             ELSE a1
        ELSE IF acwr_zone \in {"elevated"} /\ template \in VeryHard
        THEN [adjusted |-> "Threshold",
              adaptations |-> Append(a1.adaptations,
                  "Elevated ACWR; shifting to Threshold focus.")]
        ELSE a1

\* AICoach._rest_day
_rest_day(day, hr_zones) ==
    [type |-> "Rest", duration_minutes |-> 0, segments |-> << >>, primary_zone |-> "Z1"]

\* AICoach._recovery_run
_recovery_run(day, hr_zones) ==
    LET duration == Max(20, Min(day.availability_minutes, 40))
    IN  [type |-> "Recovery", duration_minutes |-> duration,
         segments |-> << Segment("Easy", 0, duration, "Z1", hr_zones) >>,
         primary_zone |-> "Z1"]

\* AICoach._long_run
_long_run(day, hr_zones) ==
    LET target_duration == Min(Max(day.availability_minutes, 75), 120)
        warmup == 10
        cooldown == 10
        surge_block == 8
        steady0 == Max(target_duration - (warmup + cooldown + surge_block), 40)
        total0 == warmup + steady0 + surge_block + cooldown
        steady == IF total0 > target_duration
                  THEN Max(40, steady0 - (total0 - target_duration))
                  ELSE steady0
        total_duration == warmup + steady + surge_block + cooldown
        surges == IF surge_block > 0
                  THEN << Segment("Optional Surges", 0, surge_block, "Z3", hr_zones) >>
                  ELSE << >>
    IN  [type |-> "Endurance", duration_minutes |-> total_duration,
         segments |-> << Segment("Warm-up", 0, warmup, "Z1", hr_zones),
                         Segment("Steady", 0, steady, "Z2", hr_zones) >>
                      \o surges
                      \o << Segment("Cool-down", 0, cooldown, "Z1", hr_zones) >>,
         primary_zone |-> "Z2"]

\* the rep/recovery interleaving shared by _threshold_run and _vo2_intervals:
\* zip(intervals, recoveries + [None]), recoveries numbered 1..reps-1
RECURSIVE Interleave(_, _, _, _, _, _, _, _)
Interleave(i, reps, rep_label, rep_duration, rep_zone, recovery, rec_zone, hr_zones) ==
    IF i > reps THEN << >>
    ELSE << Segment(rep_label, i, rep_duration, rep_zone, hr_zones) >>
         \o (IF i < reps
             THEN << Segment("Recovery jog", i, recovery, rec_zone, hr_zones) >>
             ELSE << >>)
         \o Interleave(i + 1, reps, rep_label, rep_duration, rep_zone, recovery, rec_zone, hr_zones)

\* AICoach._threshold_run
_threshold_run(day, hr_zones) ==
    LET reps0 == 3
        rep_duration0 == 10
        recovery == 3
        total0 == 15 + (reps0 * rep_duration0 + (reps0 - 1) * recovery) + 10
        cut == total0 > day.availability_minutes
        rep_duration == IF cut
                        THEN Max(8, RoundHalfEven(rep_duration0 * day.availability_minutes, total0))
                        ELSE rep_duration0
        reps == IF cut THEN Max(2, reps0 - 1) ELSE reps0
        total_main == reps * rep_duration + (reps - 1) * recovery
        total_duration == 15 + total_main + 10
    IN  [type |-> "Lactate Threshold", duration_minutes |-> total_duration,
         segments |-> << Segment("Warm-up", 0, 15, "Z1", hr_zones) >>
                      \o Interleave(1, reps, "Threshold rep", rep_duration, "Z3", recovery, "Z1", hr_zones)
                      \o << Segment("Cool-down", 0, 10, "Z1", hr_zones) >>,
         primary_zone |-> "Z3"]

\* AICoach._vo2_intervals
_vo2_intervals(day, hr_zones) ==
    LET reps0 == 5
        rep_duration == 3
        recovery == 2
        total0 == 15 + (reps0 * rep_duration + (reps0 - 1) * recovery) + 10
        reps == IF total0 > day.availability_minutes THEN Max(4, reps0 - 1) ELSE reps0
        total_main == reps * rep_duration + (reps - 1) * recovery
        total_duration == 15 + total_main + 10
    IN  [type |-> "VO2 Max Intervals", duration_minutes |-> total_duration,
         segments |-> << Segment("Warm-up", 0, 15, "Z1", hr_zones) >>
                      \o Interleave(1, reps, "VO2 rep", rep_duration, "Z4", recovery, "Z1", hr_zones)
                      \o << Segment("Cool-down", 0, 10, "Z1", hr_zones) >>,
         primary_zone |-> "Z4"]

\* AICoach._double_threshold
_double_threshold(day, hr_zones) ==
    LET warmup == 10
        cooldown == 10
        am_block0 == 25
        pm_block0 == 30
        easy_between0 == 10
        planned_total == warmup + am_block0 + easy_between0 + pm_block0 + cooldown
        target_total == Min(day.availability_minutes, 90)
        cut == planned_total > target_total
        am_block == IF cut THEN Max(15, RoundHalfEven(am_block0 * target_total, planned_total))
                    ELSE am_block0
        pm_block == IF cut THEN Max(20, RoundHalfEven(pm_block0 * target_total, planned_total))
                    ELSE pm_block0
        easy_between == IF cut THEN Max(5, RoundHalfEven(easy_between0 * target_total, planned_total))
                        ELSE easy_between0
        total_duration == warmup + am_block + easy_between + pm_block + cooldown
    IN  [type |-> "Double Threshold (conservative)", duration_minutes |-> total_duration,
         segments |-> << Segment("Warm-up", 0, warmup, "Z1", hr_zones),
                         Segment("AM Tempo", 0, am_block, "Z3", hr_zones),
                         Segment("Recovery jog", 0, easy_between, "Z1", hr_zones),
                         Segment("PM Steady", 0, pm_block, "Z2", hr_zones),
                         Segment("Cool-down", 0, cooldown, "Z1", hr_zones) >>,
         primary_zone |-> "Z3"]

\* the builder table of _build_training_session (default _recovery_run)
builder(template, day, hr_zones) ==
    CASE template = "Rest" -> _rest_day(day, hr_zones)
      [] template = "Recovery" -> _recovery_run(day, hr_zones)
      [] template = "Long Run" -> _long_run(day, hr_zones)
      [] template = "Threshold" -> _threshold_run(day, hr_zones)
      [] template = "VO2_Intervals" -> _vo2_intervals(day, hr_zones)
      [] template = "Double_Threshold" -> _double_threshold(day, hr_zones)
      [] OTHER -> _recovery_run(day, hr_zones)

\* _trim_volume with durations floored at 1 minute (max(1, ...) for max(0, ...))
_trim_volume_floor_one(session, factor, adaptations, reason) ==
    LET scale(d) == Max(1, RoundHalfEven(d * factor.num, factor.den))
    IN  [session |->
            [session EXCEPT
                !.duration_minutes = scale(session.duration_minutes),
                !.segments = [i \in 1..Len(session.segments) |->
                    [session.segments[i] EXCEPT
                        !.duration_minutes = scale(session.segments[i].duration_minutes)]]],
         adaptations |-> Append(adaptations, reason)]

\* AICoach._trim_volume: [session, adaptations]; factor is a rational
_trim_volume(session, factor, adaptations, reason) ==
    LET scale(d) == Max(0, RoundHalfEven(d * factor.num, factor.den))
    IN  [session |->
            [session EXCEPT
                !.duration_minutes = scale(session.duration_minutes),
                !.segments = [i \in 1..Len(session.segments) |->
                    [session.segments[i] EXCEPT
                        !.duration_minutes = scale(session.segments[i].duration_minutes)]]],
         adaptations |-> Append(adaptations, reason)]

\* _trim_to_availability dividing by duration + 1
_trim_to_availability_plus_one(session, available, adaptations) ==
    IF session.duration_minutes = 0
    THEN [session |-> session, adaptations |-> adaptations]
    ELSE _trim_volume(session, Rat(available, session.duration_minutes + 1), adaptations,
                      "Duration capped to availability (" \o ToString(available) \o " min).")

\* AICoach._trim_to_availability: [session, adaptations]
_trim_to_availability(session, available, adaptations) ==
    IF session.duration_minutes = 0
    THEN [session |-> session, adaptations |-> adaptations]
    ELSE _trim_volume(session, Rat(available, Max(session.duration_minutes, 1)), adaptations,
                     "Duration capped to availability (" \o ToString(available) \o " min).")

\* AICoach._estimate_load, in tenths
RECURSIVE _estimate_load(_)
_estimate_load(segments) ==
    IF segments = << >> THEN 0
    ELSE Head(segments).duration_minutes * INTENSITY_FACTORS[Head(segments).target_zone]
         + _estimate_load(Tail(segments))

\* the 15% trim of _build_training_session
MODERATE_TRIM == Rat(85, 100)

\* _build_training_session, the session as built: session["template"] = template
with_template(session, template) ==
    [type |-> session.type, duration_minutes |-> session.duration_minutes,
     segments |-> session.segments, primary_zone |-> session.primary_zone,
     template |-> template]

\* moderate_trim trimming whatever the template, Rest and Recovery included
moderate_trim_any_template(session, template, readiness_tier, adaptations) ==
    IF readiness_tier = "moderate"
    THEN _trim_volume(session, MODERATE_TRIM, adaptations,
                     "Moderate readiness; trimmed volume by 15%.")
    ELSE [session |-> session, adaptations |-> adaptations]

\* _build_training_session, the trim of a moderate-readiness day
moderate_trim(session, template, readiness_tier, adaptations) ==
    IF readiness_tier = "moderate" /\ template \notin RestOrRecovery
    THEN _trim_volume(session, MODERATE_TRIM, adaptations,
                     "Moderate readiness; trimmed volume by 15%.")
    ELSE [session |-> session, adaptations |-> adaptations]

\* availability_cap leaving no note of the cap in adaptations
availability_cap_silent(trimmed, day) ==
    IF day.availability_minutes # 0
        /\ trimmed.session.duration_minutes > day.availability_minutes
    THEN [session |-> _trim_to_availability(trimmed.session, day.availability_minutes,
                                            trimmed.adaptations).session,
          adaptations |-> trimmed.adaptations]
    ELSE trimmed

\* _build_training_session, the cap to the day's availability (none when
\* availability_minutes is 0)
availability_cap(trimmed, day) ==
    IF day.availability_minutes # 0
        /\ trimmed.session.duration_minutes > day.availability_minutes
    THEN _trim_to_availability(trimmed.session, day.availability_minutes, trimmed.adaptations)
    ELSE trimmed

\* _build_training_session, session["estimated_load"] = ...
with_estimated_load(capped) ==
    [session |->
        [type |-> capped.session.type, duration_minutes |-> capped.session.duration_minutes,
         segments |-> capped.session.segments, primary_zone |-> capped.session.primary_zone,
         template |-> capped.session.template,
         estimated_load |-> _estimate_load(capped.session.segments)],
     adaptations |-> capped.adaptations]

\* _build_training_session estimating the load of the session as built,
\* before the trim and the cap
_build_training_session_load_first(template, day, hr_zones, readiness_tier, adaptations) ==
    [session |->
        [with_estimated_load(
            availability_cap(
                moderate_trim(with_template(builder(template, day, hr_zones), template),
                              template, readiness_tier, adaptations),
                day)).session
         EXCEPT !.estimated_load = _estimate_load(builder(template, day, hr_zones).segments)],
     adaptations |->
        availability_cap(
            moderate_trim(with_template(builder(template, day, hr_zones), template),
                          template, readiness_tier, adaptations),
            day).adaptations]

\* AICoach._build_training_session: [session, adaptations]
_build_training_session(template, day, hr_zones, readiness_tier, adaptations) ==
    with_estimated_load(
        availability_cap(
            moderate_trim(with_template(builder(template, day, hr_zones), template),
                          template, readiness_tier, adaptations),
            day))

\* AICoach.generate_daily_plan: the day entries the call can return (one for
\* each report of load_report), or the error a step raised
generate_daily_plan(user_profile, microcycle_day) ==
    LET z == _safe_zones(user_profile, << >>)
        day_entry(load_risk) ==
            LET readiness == readiness_score(microcycle_day.readiness_inputs, user_profile,
                                             load_risk.zone)
                adapted == _adapt_template(microcycle_day.template, readiness[2],
                                           load_risk.zone, user_profile, z.adaptations)
                built == _build_training_session(adapted.adjusted, microcycle_day, z.zones,
                                                 readiness[2], adapted.adaptations)
            IN  [kind |-> "day_entry",
                 template_requested |-> microcycle_day.template,
                 template_final |-> adapted.adjusted,
                 training_session |-> built.session,
                 nutrition_engine |-> build_plan(built.session, user_profile),
                 recovery_protocol |-> protocol(readiness[2], load_risk.zone, user_profile),
                 load_risk |-> load_risk,
                 readiness |-> [score |-> readiness[1], tier |-> readiness[2]],
                 adaptations |-> built.adaptations]
    IN  IF IsRaise(z.zones) THEN {z.zones}
        ELSE { day_entry(load_risk) : load_risk \in load_report(microcycle_day.load_history) }

\* ------------------------------- inputs --------------------------------- \*

\* a load history of n days: `old` on the first `split` days, `recent` after
History(n, split, old, recent) == [i \in 1..n |-> IF i <= split THEN old ELSE recent]

Histories ==
    { History(n, split, old, recent) :
        n \in 0..MaxHistory, split \in 0..MaxHistory, old \in 0..MaxLoad, recent \in 0..MaxLoad }

\* one history per ACWR zone, and the empty one
PlanHistories ==
    { << >>, History(28, 21, 3, 1), History(28, 0, 2, 2),
      History(28, 21, 2, 3), History(28, 21, 0, 3) }

Templates ==
    {"Rest", "Recovery", "Long Run", "Threshold", "VO2_Intervals", "Double_Threshold", "Tempo"}

Inputs(sleep_hours, sleep_quality, soreness, stress, mental_energy, resting_hr, hrv_change_ms) ==
    [sleep_hours |-> sleep_hours, sleep_quality |-> sleep_quality, soreness |-> soreness,
     stress |-> stress, mental_energy |-> mental_energy, resting_hr |-> resting_hr,
     hrv_change_ms |-> hrv_change_ms]

\* a rested, a middling and a tired day: readiness high, moderate and low
\* whatever the load zone and the injury flag
PlanReadiness ==
    { Inputs(80, 9, 2, 2, 8, None, None),
      Inputs(70, 7, 7, 6, 5, Some(52), Some(-2)),
      Inputs(50, 4, 8, 8, 3, None, None) }

Users ==
    [age : {35}, weight_kg : {68}, training_level : {"intermediate"},
     max_hr : {None, Some(0), Some(185)}, resting_hr : {None, Some(50)},
     injury_flag : BOOLEAN]

Days ==
    [template : Templates, availability_minutes : 0..MaxAvail,
     readiness_inputs : PlanReadiness, load_history : PlanHistories]

\* ------------------------------- actions -------------------------------- \*

Return(v) ==
    /\ pc' = IF IsRaise(v) THEN "raised" ELSE "returned"
    /\ ret' = v
    /\ UNCHANGED <<op, args>>

GenerateDailyPlan ==
    /\ pc = "ready" /\ op = "generate_daily_plan"
    /\ \E day_entry \in generate_daily_plan(args.user_profile, args.microcycle_day) :
          Return(day_entry)

HeartRateZones ==
    /\ pc = "ready" /\ op = "heart_rate_zones"
    /\ Return(heart_rate_zones(args.max_hr, args.resting_hr))

Init ==
    /\ pc = "ready"
    /\ ret = NoValue
    /\ \/ /\ op = "generate_daily_plan"
          /\ args \in [user_profile : Users, microcycle_day : Days]
       \/ /\ op = "heart_rate_zones"
          /\ args \in [max_hr : {None, Some(0)} \cup { Some(v) : v \in 150..200 },
                       resting_hr : {None, Some(0)} \cup { Some(v) : v \in 40..70 }]

Next == GenerateDailyPlan \/ HeartRateZones

Spec == Init /\ [][Next]_vars

\* ---------------- LoadManager called on its own ------------------------- \*

LoadReport ==
    /\ pc = "ready" /\ op = "load_report"
    /\ \E load_risk \in load_report(args.load_history) :
          Return([kind |-> "load_risk", report |-> load_risk])

ComputeAcuteChronic ==
    /\ pc = "ready" /\ op = "compute_acute_chronic"
    /\ LET ac == compute_acute_chronic(args.load_history)
       IN  Return([kind |-> "loads", acute_load |-> ac[1], chronic_load |-> ac[2]])

ComputeAcwr ==
    /\ pc = "ready" /\ op = "compute_acwr"
    /\ Return([kind |-> "acwr", acwr |-> compute_acwr(args.acute_load, args.chronic_load)])

ClassifyAcwr ==
    /\ pc = "ready" /\ op = "classify_acwr"
    /\ Return([kind |-> "zone", zone |-> classify_acwr(args.acwr)])

\* loads are means of non-negative daily loads
Loads == { Rat(n, d) : n \in 0..MaxLoad, d \in 1..ACUTE_DAYS }

AcwrValues == { Rat(n, d) : n \in 0..MaxAcwrNum, d \in 1..MaxAcwrDen } \cup {Inf}

InitLoad ==
    /\ pc = "ready"
    /\ ret = NoValue
    /\ \/ /\ op \in {"load_report", "compute_acute_chronic"}
          /\ args \in [load_history : Histories]
       \/ /\ op = "compute_acwr"
          /\ args \in [acute_load : Loads, chronic_load : Loads]
       \/ /\ op = "classify_acwr"
          /\ args \in [acwr : AcwrValues]

NextLoad == LoadReport \/ ComputeAcuteChronic \/ ComputeAcwr \/ ClassifyAcwr

SpecLoad == InitLoad /\ [][NextLoad]_vars

\* ---------------- RecoveryEngine.readiness_score called on its own ------ \*

ReadinessScore ==
    /\ pc = "ready" /\ op = "readiness_score"
    /\ LET r == readiness_score(args.inputs, args.user, args.load_zone)
       IN  Return([kind |-> "readiness", score |-> r[1], tier |-> r[2]])

ReadinessInputs ==
    [sleep_hours : {40, 65, 75, 90}, sleep_quality : {1, 7, 10},
     soreness : {1, 3, 5, 7, 10}, stress : {1, 3, 6, 10}, mental_energy : {1, 5, 10},
     resting_hr : {None, Some(50), Some(55)}, hrv_change_ms : {None, Some(-10), Some(5)}]

InitReadiness ==
    /\ pc = "ready"
    /\ ret = NoValue
    /\ op = "readiness_score"
    /\ args \in [inputs : ReadinessInputs,
                 user : [age : {35}, weight_kg : {68}, training_level : {"intermediate"},
                         max_hr : {Some(185)}, resting_hr : {None, Some(50)},
                         injury_flag : BOOLEAN],
                 load_zone : {"underload", "optimal", "elevated", "high"}]

NextReadiness == ReadinessScore

SpecReadiness == InitReadiness /\ [][NextReadiness]_vars

\* ---------------- AICoach._trim_volume called on its own, repeatedly ---- \*

\* sessions of whole, non-negative minutes
TrimSessions ==
    { [type |-> "Recovery", duration_minutes |-> total,
       segments |-> [i \in 1..n |->
                        Segment("Easy", 0, minutes[i], "Z1", heart_rate_zones(Some(190), None))],
       primary_zone |-> "Z1", template |-> "Recovery"] :
        total \in 0..MaxMinutes, n \in 0..MaxSegments,
        minutes \in [1..MaxSegments -> 0..MaxMinutes] }

\* the factors 1.0, 0.85 and 0.5
TrimFactors == {Rat(1, 1), MODERATE_TRIM, Rat(1, 2)}

\* _trim_volume on the session handed in, then on the session it returned
TrimVolume ==
    /\ op = "_trim_volume"
    /\ \/ /\ pc = "ready"
          /\ LET t == _trim_volume(args.session, args.factor, args.adaptations, args.reason)
             IN  ret' = [kind |-> "trimmed", session |-> t.session,
                         adaptations |-> t.adaptations]
       \/ /\ pc = "returned"
          /\ Len(ret.adaptations) < MaxTrims
          /\ LET t == _trim_volume(ret.session, args.factor, ret.adaptations, args.reason)
             IN  ret' = [kind |-> "trimmed", session |-> t.session,
                         adaptations |-> t.adaptations]
    /\ pc' = "returned"
    /\ UNCHANGED <<op, args>>

InitTrim ==
    /\ pc = "ready"
    /\ ret = NoValue
    /\ op = "_trim_volume"
    /\ args \in [session : TrimSessions, factor : TrimFactors,
                 adaptations : {<< >>}, reason : {"trimmed"}]

NextTrim == TrimVolume

SpecTrim == InitTrim /\ [][NextTrim]_vars

\* ---------------- NutritionEngine._intra_fueling called on its own ------ \*

IntraFueling ==
    /\ pc = "ready" /\ op = "_intra_fueling"
    /\ LET f == _intra_fueling(args.duration, args.intensity_zone)
       IN  Return([kind |-> "intra_run", carbs_g_per_hour |-> f.carbs_g_per_hour,
                   fluids |-> f.fluids, electrolytes_mg_per_l |-> f.electrolytes_mg_per_l,
                   notes |-> f.notes])

InitNutrition ==
    /\ pc = "ready"
    /\ ret = NoValue
    /\ op = "_intra_fueling"
    /\ args \in [duration : 0..MaxDuration,
                 intensity_zone : {"Z1", "Z2", "Z3", "Z4", "Z5"}]

NextNutrition == IntraFueling

SpecNutrition == InitNutrition /\ [][NextNutrition]_vars

\* ------------------------------ properties ------------------------------ \*

PlanReturned == op = "generate_daily_plan" /\ pc = "returned"

InjuryNote == "Injury flag set; downgrading to Recovery."

MissingMaxHrNote == "Missing max_hr; defaulting to 190 bpm for zone calc."

\* the notes _adapt_template can append
AdaptNotes ==
    { InjuryNote,
      "Low readiness detected; replaced hard session with Recovery.",
      "High ACWR + low readiness; prescribing Rest.",
      "High ACWR; downgrading from very hard to Threshold.",
      "Elevated ACWR; shifting to Threshold focus." }

RECURSIVE SegmentMinutes(_)
SegmentMinutes(segments) ==
    IF segments = << >> THEN 0
    ELSE Head(segments).duration_minutes + SegmentMinutes(Tail(segments))

\* the duration the builder of the final template produced for the day, after
\* the 15% trim of a moderate-readiness day and before the availability cap
PreCapDuration ==
    LET built == builder(ret.template_final, args.microcycle_day,
                         heart_rate_zones(Some(190), None))
    IN  IF ret.readiness.tier = "moderate" /\ ret.template_final \notin RestOrRecovery
        THEN Max(0, RoundHalfEven(built.duration_minutes * 85, 100))
        ELSE built.duration_minutes

\* C1: with the injury flag set and a requested template other than Rest or
\* Recovery, template_final is "Recovery" whatever the readiness tier and
\* the ACWR zone, and the adaptations hold the injury note.
C1_InjuryForcesRecovery ==
    (PlanReturned /\ args.user_profile.injury_flag
        /\ args.microcycle_day.template \notin RestOrRecovery)
    => (ret.template_final = "Recovery" /\ InjuryNote \in Range(ret.adaptations))

\* C2: the segment durations of every returned session add up to the
\* session's duration_minutes.
C2_SegmentsSumToDuration ==
    PlanReturned =>
        SegmentMinutes(ret.training_session.segments) = ret.training_session.duration_minutes

\* C3 as stated: for every availability_minutes >= 0 the returned duration
\* never exceeds availability_minutes, and equals it when the builder's
\* duration (after any moderate-readiness trim) exceeded it.
C3_FitsAnyAvailability ==
    PlanReturned =>
        /\ ret.training_session.duration_minutes <= args.microcycle_day.availability_minutes
        /\ PreCapDuration > args.microcycle_day.availability_minutes
            => ret.training_session.duration_minutes = args.microcycle_day.availability_minutes

\* C3 amended: for every availability_minutes > 0 the returned duration never
\* exceeds availability_minutes, and equals it when the builder's duration
\* (after any moderate-readiness trim) exceeded it.
C3_FitsPositiveAvailability ==
    (PlanReturned /\ args.microcycle_day.availability_minutes > 0) =>
        /\ ret.training_session.duration_minutes <= args.microcycle_day.availability_minutes
        /\ PreCapDuration > args.microcycle_day.availability_minutes
            => ret.training_session.duration_minutes = args.microcycle_day.availability_minutes

\* a Threshold session of a moderate-readiness day, trimmed by 15% and then
\* capped to a positive availability
C3_Witness ==
    /\ PlanReturned
    /\ args.microcycle_day.availability_minutes > 0
    /\ ret.template_final = "Threshold"
    /\ ret.readiness.tier = "moderate"
    /\ PreCapDuration > args.microcycle_day.availability_minutes
    /\ ret.training_session.duration_minutes = args.microcycle_day.availability_minutes

\* C4: with low readiness the final template is Rest or Recovery: a requested
\* template other than Rest/Recovery becomes Recovery, and with a high ACWR
\* zone the final template is Rest, whatever was requested.
C4_LowReadinessNeverHard ==
    (PlanReturned /\ ret.readiness.tier = "low") =>
        /\ ret.template_final \in RestOrRecovery
        /\ (args.microcycle_day.template \notin RestOrRecovery /\ ret.load_risk.zone # "high")
            => ret.template_final = "Recovery"
        /\ ret.load_risk.zone = "high" => ret.template_final = "Rest"

\* a hard session requested on a low-readiness day with a high ACWR
C4_Witness ==
    /\ PlanReturned
    /\ ret.readiness.tier = "low"
    /\ ret.load_risk.zone = "high"
    /\ args.microcycle_day.template = "Threshold"
    /\ ret.template_final = "Rest"

\* C5: without injury flag and with moderate or high readiness, template_final
\* is Threshold when the ACWR zone is high or elevated and VO2_Intervals or
\* Double_Threshold was requested; otherwise it is the requested template and
\* _adapt_template adds no note.
C5_DecisionTable ==
    (PlanReturned /\ ~args.user_profile.injury_flag
        /\ ret.readiness.tier \in {"moderate", "high"}) =>
        IF ret.load_risk.zone \in {"high", "elevated"}
           /\ args.microcycle_day.template \in {"VO2_Intervals", "Double_Threshold"}
        THEN ret.template_final = "Threshold"
        ELSE /\ ret.template_final = args.microcycle_day.template
             /\ Range(ret.adaptations) \cap AdaptNotes = {}

\* Double_Threshold requested by a healthy, rested athlete with elevated ACWR
C5_Witness ==
    /\ PlanReturned
    /\ ~args.user_profile.injury_flag
    /\ ret.readiness.tier = "high"
    /\ ret.load_risk.zone = "elevated"
    /\ args.microcycle_day.template = "Double_Threshold"
    /\ ret.template_final = "Threshold"

\* C10: heart_rate_zones called with max_hr None or 0 raises and returns no
\* zones; generate_daily_plan never raises: with max_hr None or 0 it derives
\* the zones from max_hr = 190, and it appends the missing-max_hr note exactly
\* when max_hr is None or 0.
C10_MaxHrDefault ==
    /\ (op = "heart_rate_zones" /\ pc # "ready" /\ ~Truthy(args.max_hr))
        => (pc = "raised" /\ ret.kind = "raise")
    /\ (op = "generate_daily_plan" /\ pc # "ready") =>
        /\ pc = "returned"
        /\ MissingMaxHrNote \in Range(ret.adaptations) <=> ~Truthy(args.user_profile.max_hr)
        /\ ~Truthy(args.user_profile.max_hr) =>
            \A i \in 1..Len(ret.training_session.segments) :
                LET segment == ret.training_session.segments[i]
                    rhr == OrElse(args.user_profile.resting_hr, 60)
                    low == [Z1 |-> 55, Z2 |-> 72, Z3 |-> 82, Z4 |-> 89, Z5 |-> 95]
                    high == [Z1 |-> 72, Z2 |-> 82, Z3 |-> 89, Z4 |-> 95, Z5 |-> 100]
                IN  segment.hr_range_bpm =
                        << RoundHalfEven(rhr * 100 + (190 - rhr) * low[segment.target_zone], 100),
                           RoundHalfEven(rhr * 100 + (190 - rhr) * high[segment.target_zone], 100) >>

\* a plan with segments returned for a profile whose max_hr is 0
C10_Witness ==
    /\ PlanReturned
    /\ args.user_profile.max_hr = Some(0)
    /\ ret.training_session.segments # << >>
    /\ MissingMaxHrNote \in Range(ret.adaptations)

\* <<total, segment durations>> of a session
Durations(session) ==
    <<session.duration_minutes,
      [i \in 1..Len(session.segments) |-> session.segments[i].duration_minutes]>>

\* the session the builder of the final template makes for the day
Built ==
    builder(ret.template_final, args.microcycle_day,
            heart_rate_zones(Some(OrElse(args.user_profile.max_hr, 190)),
                             args.user_profile.resting_hr))

TrimNote == "Moderate readiness; trimmed volume by 15%."

CapNote ==
    "Duration capped to availability ("
        \o ToString(args.microcycle_day.availability_minutes) \o " min)."

\* the day is one of moderate readiness and the final template a run
TrimDue == ret.readiness.tier = "moderate" /\ ret.template_final \notin RestOrRecovery

\* the durations that reach the availability check, by the claim: the
\* builder's, each replaced by round(0.85 x itself) when the trim is due
BeforeCap ==
    IF TrimDue
    THEN <<RoundHalfEven(85 * Built.duration_minutes, 100),
           [i \in 1..Len(Built.segments) |->
                RoundHalfEven(85 * Built.segments[i].duration_minutes, 100)]>>
    ELSE Durations(Built)

CapDue ==
    /\ args.microcycle_day.availability_minutes # 0
    /\ BeforeCap[1] > args.microcycle_day.availability_minutes

\* C11: the 15% trim is applied exactly when the readiness tier is moderate
\* and the final template is not Rest or Recovery; the total and every
\* segment duration are then round(0.85 x the builder's value) before any
\* availability cap, and otherwise the builder's durations reach the
\* availability check unchanged.
C11_ModerateTrim ==
    PlanReturned =>
        /\ TrimNote \in Range(ret.adaptations) <=> TrimDue
        /\ ~CapDue => Durations(ret.training_session) = BeforeCap
        /\ CapDue =>
            Durations(ret.training_session) =
                <<RoundHalfEven(BeforeCap[1] * args.microcycle_day.availability_minutes,
                                BeforeCap[1]),
                  [i \in 1..Len(BeforeCap[2]) |->
                      RoundHalfEven(BeforeCap[2][i] * args.microcycle_day.availability_minutes,
                                    BeforeCap[1])]>>

\* a long run of a moderate-readiness day, trimmed and not capped
C11_Witness ==
    /\ PlanReturned
    /\ ret.readiness.tier = "moderate" /\ ret.template_final = "Long Run"
    /\ ~CapDue
    /\ TrimNote \in Range(ret.adaptations)
    /\ ret.training_session.duration_minutes < Built.duration_minutes
    /\ Durations(ret.training_session) # Durations(Built)

\* sum of duration x intensity factor over segments, in tenths
RECURSIVE WeightedMinutes(_)
WeightedMinutes(segments) ==
    IF segments = << >> THEN 0
    ELSE Head(segments).duration_minutes
            * (CASE Head(segments).target_zone = "Z1" -> 10
                 [] Head(segments).target_zone = "Z2" -> 13
                 [] Head(segments).target_zone = "Z3" -> 16
                 [] Head(segments).target_zone = "Z4" -> 19
                 [] Head(segments).target_zone = "Z5" -> 23)
         + WeightedMinutes(Tail(segments))

\* C12: the estimated_load of every returned session is the sum over the
\* segments of the session as returned of duration x intensity factor
\* (Z1=1.0, Z2=1.3, Z3=1.6, Z4=1.9, Z5=2.3), to one decimal; a Rest session
\* has estimated_load 0.
C12_EstimatedLoad ==
    PlanReturned =>
        /\ ret.training_session.estimated_load
                = WeightedMinutes(ret.training_session.segments)
        /\ ret.training_session.type = "Rest" => ret.training_session.estimated_load = 0

\* a trimmed and capped session whose load is not that of the session as built
C12_Witness ==
    /\ PlanReturned
    /\ TrimNote \in Range(ret.adaptations) /\ CapNote \in Range(ret.adaptations)
    /\ ret.training_session.estimated_load > 0
    /\ ret.training_session.estimated_load # WeightedMinutes(Built.segments)

\* <<note>> if the rule fired, nothing otherwise
NoteIf(fired, note) == IF fired THEN <<note>> ELSE << >>

\* the notes of the rules that fired for the call, in orchestration order:
\* missing max_hr, template adaptation, moderate-readiness trim, cap
FiredNotes ==
    LET template == args.microcycle_day.template
        tier == ret.readiness.tier
        acwr_zone == ret.load_risk.zone
    IN  NoteIf(~Truthy(args.user_profile.max_hr), MissingMaxHrNote)
        \o NoteIf(args.user_profile.injury_flag /\ template \notin RestOrRecovery, InjuryNote)
        \o NoteIf(tier = "low" /\ template \notin RestOrRecovery,
                  "Low readiness detected; replaced hard session with Recovery.")
        \o NoteIf(tier = "low" /\ acwr_zone = "high",
                  "High ACWR + low readiness; prescribing Rest.")
        \o NoteIf(tier # "low" /\ acwr_zone = "high" /\ template \in VeryHard,
                  "High ACWR; downgrading from very hard to Threshold.")
        \o NoteIf(tier # "low" /\ acwr_zone = "elevated" /\ template \in VeryHard,
                  "Elevated ACWR; shifting to Threshold focus.")
        \o NoteIf(TrimDue, TrimNote)
        \o NoteIf(CapDue, CapNote)

\* C15: the adaptations returned by generate_daily_plan are the notes of the
\* rules that fired, each once and no other, in orchestration order (missing
\* max_hr, then template adaptation, then the moderate-readiness trim, then
\* the cap to availability); the list is non-empty whenever template_final
\* differs from template_requested.
C15_AdaptationsInOrder ==
    PlanReturned =>
        /\ ret.adaptations = FiredNotes
        /\ ret.template_final # ret.template_requested => ret.adaptations # << >>

\* a very hard session without max_hr, downgraded, trimmed and capped:
\* four notes, one of each step
C15_Witness ==
    /\ PlanReturned
    /\ ret.template_requested = "VO2_Intervals" /\ ret.template_final = "Threshold"
    /\ Len(ret.adaptations) = 4
    /\ ret.adaptations[1] = MissingMaxHrNote
    /\ ret.adaptations[2] \in AdaptNotes
    /\ ret.adaptations[3] = TrimNote
    /\ ret.adaptations[4] = CapNote

\* the six templates with a builder of their own
KnownTemplates ==
    {"Rest", "Recovery", "Long Run", "Threshold", "VO2_Intervals", "Double_Threshold"}

\* C16: with the injury flag set and one of the six known templates
\* requested, template_final is Rest or Recovery and no segment of the
\* returned session targets a zone above Z1, whatever the readiness tier
\* and the ACWR zone.
C16_InjuredNeverAboveRecovery ==
    (PlanReturned /\ args.user_profile.injury_flag
        /\ args.microcycle_day.template \in KnownTemplates) =>
        /\ ret.template_final \in RestOrRecovery
        /\ \A i \in 1..Len(ret.training_session.segments) :
                ret.training_session.segments[i].target_zone = "Z1"

\* C17: for every availability_minutes > 0 the segment durations of the
\* returned session add up to no more than availability_minutes.
C17_SegmentsFitAvailability ==
    (PlanReturned /\ args.microcycle_day.availability_minutes > 0) =>
        SegmentMinutes(ret.training_session.segments)
            <= args.microcycle_day.availability_minutes

\* --- AICoach._trim_volume (SpecTrim) ---

\* C13: trimming by factor 1.0 changes nothing: _trim_volume(session, 1.0)
\* returns the same duration_minutes and the same segment durations, however
\* many times it is applied over.
C13_TrimByOneChangesNothing ==
    (op = "_trim_volume" /\ pc = "returned" /\ args.factor = Rat(1, 1)) =>
        /\ Durations(ret.session) = Durations(args.session)
        /\ ret.session = args.session

\* a session with a zero-minute and a longer segment, trimmed by 1.0 MaxTrims times
C13_Witness ==
    /\ op = "_trim_volume" /\ pc = "returned" /\ args.factor = Rat(1, 1)
    /\ Len(ret.adaptations) = MaxTrims
    /\ Len(args.session.segments) = 2
    /\ args.session.segments[1].duration_minutes = 0
    /\ args.session.segments[2].duration_minutes = 5
    /\ args.session.duration_minutes = 5

\* --- NutritionEngine._intra_fueling (SpecNutrition) ---

\* the band of a duration of 0..300 minutes, by the claim
Band(duration) ==
    IF duration <= 59
    THEN [carbs |-> 0, fluids |-> "Water", electrolytes |-> 300]
    ELSE IF duration <= 89
    THEN [carbs |-> 30, fluids |-> "Water + electrolytes", electrolytes |-> 400]
    ELSE IF duration <= 180
    THEN [carbs |-> 60, fluids |-> "Carb mix (glucose/fructose) + electrolytes",
          electrolytes |-> 500]
    ELSE [carbs |-> 90, fluids |-> "High-carb mix + electrolytes", electrolytes |-> 600]

\* C14: for every whole duration of 0..300 minutes _intra_fueling selects
\* exactly one of the four bands (0-59: 0 g/h, 60-89: 30, 90-180: 60,
\* 181-300: 90) with its fluids and electrolytes, and carbs_g_per_hour is
\* the band's rate, raised to at least 70 exactly when the zone is Z4 or Z5
\* and duration >= 90.
C14_IntraFuelingBands ==
    (op = "_intra_fueling" /\ pc = "returned" /\ args.duration <= 300) =>
        /\ Cardinality({ i \in 1..Len(INTRA_CARB_RULES) :
                            /\ INTRA_CARB_RULES[i].min_minutes <= args.duration
                            /\ args.duration <= INTRA_CARB_RULES[i].max_minutes }) = 1
        /\ ret.fluids = Band(args.duration).fluids
        /\ ret.electrolytes_mg_per_l = Band(args.duration).electrolytes
        /\ ret.carbs_g_per_hour =
                IF args.intensity_zone \in {"Z4", "Z5"} /\ args.duration >= 90
                THEN Max(Band(args.duration).carbs, 70)
                ELSE Band(args.duration).carbs
        /\ args.duration = 75 => ret.carbs_g_per_hour = 30

\* 90 minutes in Z4: the 60 g/h of the band raised to 70
C14_Witness ==
    /\ op = "_intra_fueling" /\ pc = "returned"
    /\ args.duration = 90 /\ args.intensity_zone = "Z4"
    /\ ret.carbs_g_per_hour = 70
    /\ ret.electrolytes_mg_per_l = 500

\* --- LoadManager (SpecLoad) ---

RECURSIVE SumFrom(_, _)
SumFrom(h, i) == IF i > Len(h) THEN 0 ELSE h[i] + SumFrom(h, i + 1)

\* C6: classify_acwr gives underload iff acwr < 0.8, optimal iff
\* 0.8 <= acwr <= 1.3, elevated iff 1.3 < acwr <= 1.5, high iff acwr > 1.5
\* (infinity included).
C6_ZonesPartition ==
    (op = "classify_acwr" /\ pc = "returned") =>
        LET n == args.acwr.num
            d == args.acwr.den
            finite == ~args.acwr.inf
        IN  /\ ret.zone = "underload" <=> (finite /\ 5 * n < 4 * d)
            /\ ret.zone = "optimal" <=> (finite /\ 4 * d <= 5 * n /\ 10 * n <= 13 * d)
            /\ ret.zone = "elevated" <=> (finite /\ 13 * d < 10 * n /\ 2 * n <= 3 * d)
            /\ ret.zone = "high" <=> (~finite \/ 2 * n > 3 * d)

\* the boundary 1.5 classified as elevated
C6_Witness ==
    /\ op = "classify_acwr" /\ pc = "returned"
    /\ ~args.acwr.inf /\ 2 * args.acwr.num = 3 * args.acwr.den
    /\ ret.zone = "elevated"

\* C7: for a non-empty history of n entries the acute load is the mean of
\* the last min(7, n) entries and the chronic load the mean of the last
\* min(28, n) entries.
C7_Windows ==
    (op = "compute_acute_chronic" /\ pc = "returned" /\ args.load_history # << >>) =>
        LET h == args.load_history
            ka == Min(7, Len(h))
            kc == Min(28, Len(h))
        IN  /\ ret.acute_load.num * ka = ret.acute_load.den * SumFrom(h, Len(h) - ka + 1)
            /\ ret.chronic_load.num * kc = ret.chronic_load.den * SumFrom(h, Len(h) - kc + 1)

\* a history longer than 28 days whose oldest entries, had they counted,
\* would have changed the chronic load
C7_Witness ==
    /\ op = "compute_acute_chronic" /\ pc = "returned"
    /\ Len(args.load_history) > 28
    /\ ret.chronic_load.num * Len(args.load_history)
         # ret.chronic_load.den * SumFrom(args.load_history, 1)

\* C8: compute_acwr with a zero chronic load returns infinity for a positive
\* acute load and 0 for a zero acute load, and acute/chronic otherwise;
\* load_report of an empty or all-zero history reports acwr 0 and zone
\* underload; an infinite ACWR is classified and reported as zone high.
C8_NoDivisionByZero ==
    /\ (op = "compute_acwr" /\ pc = "returned") =>
        LET a == args.acute_load
            c == args.chronic_load
        IN  IF c.num = 0
            THEN /\ a.num > 0 => ret.acwr.inf
                 /\ a.num = 0 => (~ret.acwr.inf /\ ret.acwr.num = 0)
            ELSE /\ ~ret.acwr.inf
                 /\ ret.acwr.den > 0
                 /\ ret.acwr.num * (a.den * c.num) = ret.acwr.den * (a.num * c.den)
    /\ (op = "load_report" /\ pc = "returned"
            /\ \A i \in 1..Len(args.load_history) : args.load_history[i] = 0) =>
        /\ ~ret.report.acwr.inf /\ ret.report.acwr.num = 0
        /\ ret.report.zone = "underload"
    /\ (op = "load_report" /\ pc = "returned" /\ ret.report.acwr.inf) =>
        ret.report.zone = "high"
    /\ (op = "classify_acwr" /\ pc = "returned" /\ args.acwr.inf) => ret.zone = "high"

\* compute_acwr returning infinity for a positive acute and a zero chronic load
C8_Witness ==
    /\ op = "compute_acwr" /\ pc = "returned"
    /\ args.chronic_load.num = 0 /\ args.acute_load.num > 0
    /\ ret.acwr.inf

\* --- RecoveryEngine (SpecReadiness) ---

\* C9: readiness_score returns a score in [0, 100] and the tier high iff
\* score >= 75, moderate iff 50 <= score < 75, low iff score < 50.
C9_ScoreAndTier ==
    (op = "readiness_score" /\ pc = "returned") =>
        /\ 0 <= ret.score /\ ret.score <= 1000
        /\ ret.tier = "high" <=> ret.score >= 750
        /\ ret.tier = "moderate" <=> (500 <= ret.score /\ ret.score < 750)
        /\ ret.tier = "low" <=> ret.score < 500

\* a score of exactly 75, tier high
C9_Witness ==
    /\ op = "readiness_score" /\ pc = "returned"
    /\ ret.score = 750
    /\ ret.tier = "high"

====
